---------------------------- MODULE Spec2Model ----------------------------
(***************************************************************************)
(* Model of the employee management application (Django app "ems"):        *)
(* the rule engine of ems/ai.py, the derived payroll fields computed by    *)
(* SalaryRecord.save in ems/models.py, and the views of ems/views.py that  *)
(* create, review and display the records.                                 *)
(*                                                                         *)
(* Conventions.                                                            *)
(*  - A date is a tuple <<year, month, day>>; None is the empty tuple.     *)
(*  - Money is an integer number of cents (DecimalField, 2 decimal         *)
(*    places).  A Decimal that has not been stored yet (the value          *)
(*    SalaryRecord.save holds in memory) is an exact rational: a numerator *)
(*    in cents over the denominator 44 = 22 * 2, which is the only         *)
(*    denominator base_salary / 22 and daily_rate / 2 introduce.           *)
(*  - A database table is the set of its rows (attendance, salary: rows    *)
(*    are told apart by their fields) or the sequence of its rows in       *)
(*    primary-key order (leave requests).                                  *)
(***************************************************************************)
EXTENDS Integers, Sequences, FiniteSets

VARIABLES
    users,       \* User table: username -> [role, department, leave_balance]
    attendance,  \* AttendanceRecord table
    leaves,      \* LeaveRequest table, in primary-key order
    salaries,    \* SalaryRecord table
    response     \* what the last view rendered or did

vars == <<users, attendance, leaves, salaries, response>>

---------------------------------------------------------------------------
(* Constants of ems/models.py *)

ROLE_HR == "HR"
ROLE_MANAGER == "MANAGER"
ROLE_EMPLOYEE == "EMPLOYEE"

STATUS_PRESENT == "PRESENT"
STATUS_ABSENT == "ABSENT"
STATUS_LATE == "LATE"
STATUS_CHOICES == {STATUS_PRESENT, STATUS_ABSENT, STATUS_LATE}

REVIEW_PENDING == "PENDING"
REVIEW_APPROVED == "APPROVED"
REVIEW_REJECTED == "REJECTED"
REVIEW_CHOICES == {REVIEW_PENDING, REVIEW_APPROVED, REVIEW_REJECTED}

LEAVE_PENDING == "PENDING"
LEAVE_APPROVED == "APPROVED"
LEAVE_REJECTED == "REJECTED"

None == <<>>

---------------------------------------------------------------------------
(* datetime.date and calendar *)

isleap(y) == (y % 4 = 0) /\ ((y % 100 # 0) \/ (y % 400 = 0))

\* calendar.monthrange(year, month)[1]: the number of days of the month
monthrange(y, m) ==
    IF m = 2 THEN (IF isleap(y) THEN 29 ELSE 28)
    ELSE IF m \in {4, 6, 9, 11} THEN 30 ELSE 31

\* date.replace(day=1)
replace_day(d, day) == <<d[1], d[2], day>>

\* d1 < d2 and d1 <= d2 on dates
date_lt(d1, d2) ==
    \/ d1[1] < d2[1]
    \/ d1[1] = d2[1] /\ d1[2] < d2[2]
    \/ d1[1] = d2[1] /\ d1[2] = d2[2] /\ d1[3] < d2[3]

date_le(d1, d2) == d1 = d2 \/ date_lt(d1, d2)

RECURSIVE days_before_month(_, _)
days_before_month(y, m) ==
    IF m = 1 THEN 0 ELSE days_before_month(y, m - 1) + monthrange(y, m - 1)

\* date.toordinal(): days since 0001-01-01, which is day 1
toordinal(d) ==
    LET y == d[1] - 1
    IN  y * 365 + (y \div 4) - (y \div 100) + (y \div 400)
        + days_before_month(d[1], d[2]) + d[3]

\* (d2 - d1).days
days_between(d1, d2) == toordinal(d2) - toordinal(d1)

---------------------------------------------------------------------------
(* The users of the model *)

Usernames == {"e1", "e2", "m1"}

Employees == {"e1", "e2"}

RoleOf(u) == IF u = "m1" THEN ROLE_MANAGER ELSE ROLE_EMPLOYEE

is_employee(u) == users[u].role = ROLE_EMPLOYEE

\* role_required(roles): a superuser or a user whose role is in roles passes;
\* a decorator that names HR lets MANAGER in too
role_required(roles, u) ==
    LET elevated_roles ==
            IF ROLE_HR \in roles THEN roles \cup {ROLE_MANAGER} ELSE roles
    IN  users[u].role \in elevated_roles

---------------------------------------------------------------------------
(* ems/ai.py: attendance_flag *)

\* flag_records without the review_status filter
flag_records_any_review(objects, employee, month) ==
    LET records == {r \in objects : r.employee = employee}
    IN  IF month # None
        THEN {r \in records :
                 r.date[1] = month[1] /\ r.date[2] = month[2]}
        ELSE records

\* AttendanceRecord.objects.filter(employee=employee, review_status=APPROVED),
\* restricted to [first of month, first of next month) when month is given
flag_records(objects, employee, month) ==
    LET records == {r \in objects :
                        r.employee = employee /\ r.review_status = REVIEW_APPROVED}
    IN  IF month # None
        THEN LET month_start == replace_day(month, 1)
                 month_end ==
                     IF month[2] = 12 THEN <<month[1] + 1, 1, 1>>
                     ELSE <<month[1], month[2] + 1, 1>>
             IN  {r \in records :
                     date_le(month_start, r.date) /\ date_lt(r.date, month_end)}
        ELSE records

\* flag_label with the first threshold off by one
flag_label_late_ge_4(late_count, absent_count) ==
    IF late_count >= 4 THEN "Frequently Late"
    ELSE IF absent_count >= 3 /\ late_count >= 3 THEN "Irregular Attendance"
    ELSE "Stable Attendance"

\* the decision on the two counts
flag_label(late_count, absent_count) ==
    IF late_count > 4 THEN "Frequently Late"
    ELSE IF absent_count >= 3 /\ late_count >= 3 THEN "Irregular Attendance"
    ELSE "Stable Attendance"

attendance_flag(objects, employee, month) ==
    LET records == flag_records(objects, employee, month)
        late_count == Cardinality({r \in records : r.status = STATUS_LATE})
        absent_count == Cardinality({r \in records : r.status = STATUS_ABSENT})
    IN  flag_label(late_count, absent_count)


---------------------------------------------------------------------------
(* ems/views.py: the views that show the attendance flag *)

DefaultLeaveBalance == 12

NoFlag == "None"

NoResponse == [view |-> "none"]

\* LeaveRequest.objects.filter(status=PENDING).count()
pending_leave_total ==
    Cardinality({i \in DOMAIN leaves : leaves[i].status = LEAVE_PENDING})

\* SalaryRecord.objects.filter(anomaly_flag=True).count()
salary_anomaly_total == Cardinality({r \in salaries : r.anomaly_flag})

dashboard(user) ==
    /\ response' =
         [view |-> "dashboard",
          user |-> user,
          role |-> users[user].role,
          attendance_flag |->
              IF is_employee(user)
              THEN attendance_flag(attendance, user, None)
              ELSE NoFlag,
          pending_leave_count |->
              IF users[user].role \in {ROLE_HR, ROLE_MANAGER}
              THEN pending_leave_total
              ELSE Cardinality({i \in DOMAIN leaves : leaves[i].employee = user}),
          salary_alerts |->
              IF users[user].role \in {ROLE_HR, ROLE_MANAGER}
              THEN salary_anomaly_total
              ELSE 0]
    /\ UNCHANGED <<users, attendance, leaves, salaries>>

report_view(actor) ==
    /\ role_required({ROLE_HR}, actor)
    /\ LET employees == {u \in Usernames : users[u].role = ROLE_EMPLOYEE}
       IN  response' =
             [view |-> "reports",
              report_rows |->
                  [employee \in employees |->
                      [attendance_flag |-> attendance_flag(attendance, employee, None),
                       leave_balance |-> users[employee].leave_balance]],
              pending_leaves |-> pending_leave_total,
              salary_anomalies |-> salary_anomaly_total]
    /\ UNCHANGED <<users, attendance, leaves, salaries>>

---------------------------------------------------------------------------
(* Attendance histories for the attendance flag: the records HR has        *)
(* entered for January 2024, day after day.                                *)

MaxLate == 5
MaxAbsent == 3
MaxNoise == 2

AttendanceRow(employee, date, status, review_status) ==
    [employee |-> employee, date |-> date,
     status |-> status, review_status |-> review_status]

\* e1: al approved Late days, then aa approved Absent days, then xl Late and
\* xa Absent days whose review is xr (Pending or Rejected), then one approved
\* Present day; e2: ol approved Late days.
History(al, aa, xl, xa, xr, ol) ==
    {AttendanceRow("e1", <<2024, 1, i>>, STATUS_LATE, REVIEW_APPROVED) :
        i \in 1..al}
    \cup {AttendanceRow("e1", <<2024, 1, al + i>>, STATUS_ABSENT, REVIEW_APPROVED) :
        i \in 1..aa}
    \cup {AttendanceRow("e1", <<2024, 1, al + aa + i>>, STATUS_LATE, xr) :
        i \in 1..xl}
    \cup {AttendanceRow("e1", <<2024, 1, al + aa + xl + i>>, STATUS_ABSENT, xr) :
        i \in 1..xa}
    \cup {AttendanceRow("e1", <<2024, 1, al + aa + xl + xa + 1>>,
                        STATUS_PRESENT, REVIEW_APPROVED)}
    \cup {AttendanceRow("e2", <<2024, 1, i>>, STATUS_LATE, REVIEW_APPROVED) :
        i \in 1..ol}

InitUsers(department) ==
    [u \in Usernames |->
        [role |-> RoleOf(u), department |-> department[u],
         leave_balance |-> DefaultLeaveBalance]]

NoDepartment == [u \in Usernames |-> ""]

InitFlag ==
    /\ users = InitUsers(NoDepartment)
    /\ \E al \in 0..MaxLate, aa \in 0..MaxAbsent,
          xl \in 0..MaxNoise, xa \in 0..MaxNoise,
          xr \in {REVIEW_PENDING, REVIEW_REJECTED}, ol \in {0, MaxLate} :
          attendance = History(al, aa, xl, xa, xr, ol)
    /\ leaves = <<>>
    /\ salaries = {}
    /\ response = NoResponse

NextFlag ==
    \/ \E user \in Usernames : dashboard(user)
    \/ \E actor \in Usernames : report_view(actor)

SpecFlag == InitFlag /\ [][NextFlag]_vars

---------------------------------------------------------------------------
(* ems/models.py and ems/ai.py: leave requests *)

\* LeaveRequest.total_days
total_days(leave) == days_between(leave.start_date, leave.end_date) + 1

\* overlapping.values('employee').distinct().count() without the distinct()
overlapping_count_rows(overlapping) == Cardinality(overlapping)

\* overlapping.values('employee').distinct().count(); overlapping is the set
\* of the primary keys of the rows
overlapping_count(overlapping) ==
    Cardinality({leaves[i].employee : i \in overlapping})

\* _team_available counting the employee among the team members
team_available_with_self(employee, start_date, end_date) ==
    IF users[employee].department = "" THEN TRUE
    ELSE LET team_members ==
                 {u \in Usernames :
                     users[u].department = users[employee].department}
             overlapping ==
                 {i \in DOMAIN leaves :
                     /\ leaves[i].employee \in team_members
                     /\ leaves[i].status = LEAVE_APPROVED
                     /\ date_le(leaves[i].start_date, end_date)
                     /\ date_le(start_date, leaves[i].end_date)}
         IN  Cardinality(team_members) - overlapping_count(overlapping) >= 1

\* _team_available(employee, start_date, end_date)
team_available(employee, start_date, end_date) ==
    IF users[employee].department = "" THEN TRUE
    ELSE LET team_members ==
                 {u \in Usernames :
                     users[u].department = users[employee].department}
                 \ {employee}
             overlapping ==
                 {i \in DOMAIN leaves :
                     /\ leaves[i].employee \in team_members
                     /\ leaves[i].status = LEAVE_APPROVED
                     /\ date_le(leaves[i].start_date, end_date)
                     /\ date_le(start_date, leaves[i].end_date)}
         IN  IF team_members = {} THEN TRUE
             ELSE Cardinality(team_members) - overlapping_count(overlapping) >= 1

\* leave_recommendation with a strict comparison of the balance
leave_recommendation_strict(leave) ==
    IF /\ users[leave.employee].leave_balance > total_days(leave)
       /\ team_available(leave.employee, leave.start_date, leave.end_date)
    THEN "Suggest Approve"
    ELSE "Suggest Review"

\* leave_recommendation(leave_request)
leave_recommendation(leave) ==
    IF /\ users[leave.employee].leave_balance >= total_days(leave)
       /\ team_available(leave.employee, leave.start_date, leave.end_date)
    THEN "Suggest Approve"
    ELSE "Suggest Review"

---------------------------------------------------------------------------
(* ems/views.py: leave_request and leave_approve *)

MaxLeaves == 2
MaxBalance == 3
InitBalance == 2

\* the dates a LeaveRequestForm is submitted with
LeaveDates == {<<2024, 2, 28>>, <<2024, 3, 1>>}

NoManager == ""

Redirect(to) == [view |-> "redirect", to |-> to]

\* form.save(commit=False) of a LeaveRequestForm, then leave.employee = user
NewLeave(user, start_date, end_date) ==
    [employee |-> user, start_date |-> start_date, end_date |-> end_date,
     status |-> LEAVE_PENDING, manager |-> NoManager, recommended_action |-> ""]

\* POST of a valid LeaveRequestForm by a logged-in user
leave_request(user, start_date, end_date) ==
    /\ Len(leaves) < MaxLeaves
    /\ LET leave == NewLeave(user, start_date, end_date)
       IN  leaves' = Append(leaves,
               [leave EXCEPT !.recommended_action = leave_recommendation(leave)])
    /\ response' = Redirect("leave_list")
    /\ UNCHANGED <<users, attendance, salaries>>

\* POST to leave_approve by a manager or HR user
leave_approve(actor, pk, action) ==
    /\ role_required({ROLE_MANAGER, ROLE_HR}, actor)
    /\ pk \in DOMAIN leaves
    /\ LET leave == leaves[pk]
           balance == users[leave.employee].leave_balance
           new_balance ==
               IF balance - total_days(leave) > 0
               THEN balance - total_days(leave) ELSE 0
       IN  IF action = "approve"
           THEN /\ new_balance <= MaxBalance
                /\ leaves' = [leaves EXCEPT ![pk].status = LEAVE_APPROVED,
                                            ![pk].manager = actor]
                /\ users' = [users EXCEPT
                                ![leave.employee].leave_balance = new_balance]
           ELSE IF action = "reject"
           THEN /\ leaves' = [leaves EXCEPT ![pk].status = LEAVE_REJECTED,
                                            ![pk].manager = actor]
                /\ UNCHANGED users
           ELSE UNCHANGED <<leaves, users>>
    /\ response' = Redirect("leave_list")
    /\ UNCHANGED <<attendance, salaries>>

\* who shares a department with whom
OrgCharts ==
    {[u \in Usernames |-> "ENG"],
     [u \in Usernames |->
         IF u = "e1" THEN "ENG" ELSE IF u = "e2" THEN "" ELSE "OPS"]}

Init ==
    /\ \E department \in OrgCharts :
         users = [u \in Usernames |->
                     [role |-> RoleOf(u), department |-> department[u],
                      leave_balance |-> InitBalance]]
    /\ attendance = {}
    /\ leaves = <<>>
    /\ salaries = {}
    /\ response = NoResponse

Next ==
    \/ \E user \in Employees, start_date \in LeaveDates, end_date \in LeaveDates :
         leave_request(user, start_date, end_date)
    \/ \E actor \in Usernames, pk \in 1..MaxLeaves,
          action \in {"approve", "reject", ""} :
         leave_approve(actor, pk, action)

Spec == Init /\ [][Next]_vars

---------------------------------------------------------------------------
(* ems/models.py: SalaryRecord.save                                        *)
(*                                                                         *)
(* base_salary and a stored final_salary are in cents.  The values save    *)
(* computes before the row is stored are in 1/44 cent: daily_rate44 is     *)
(* 44 * (base_salary / 22), and so on.  Decimal divides to 28 significant  *)
(* digits; for the attendance counts of this model (2 * absent + late is   *)
(* never 11, 22 or 33) every comparison below comes out as it does on the  *)
(* exact quotients.                                                        *)

Abs(x) == IF x < 0 THEN -x ELSE x

Max(x, y) == IF x >= y THEN x ELSE y

\* n / d rounded to an integer, half to even (decimal.ROUND_HALF_EVEN), d # 0
round_half_even(n, d) ==
    LET num == IF d < 0 THEN -n ELSE n
        den == Abs(d)
        q == num \div den
        r == num % den
    IN  IF 2 * r < den THEN q
        ELSE IF 2 * r > den THEN q + 1
        ELSE IF q % 2 = 0 THEN q ELSE q + 1

\* DecimalField(decimal_places=2): the value is quantized to whole cents when
\* the row is stored; n44 is a value in 1/44 cent
quantize44(n44) == round_half_even(n44, 44)

\* month_attendance with the last day of the month left out
month_attendance_open_end(employee, month) ==
    LET month_start == month
        last_day == monthrange(month[1], month[2])
        month_end == replace_day(month, last_day)
    IN  {r \in attendance :
            /\ r.employee = employee
            /\ date_le(month_start, r.date) /\ date_lt(r.date, month_end)
            /\ r.review_status = REVIEW_APPROVED}

\* self.month.replace(day=1) .. self.month.replace(day=last_day), Approved only
month_attendance(employee, month) ==
    LET month_start == month
        last_day == monthrange(month[1], month[2])
        month_end == replace_day(month, last_day)
    IN  {r \in attendance :
            /\ r.employee = employee
            /\ date_le(month_start, r.date) /\ date_le(r.date, month_end)
            /\ r.review_status = REVIEW_APPROVED}

\* (self.base_salary / Decimal('22')) if self.base_salary else Decimal('0.00')
daily_rate44(base_salary) == IF base_salary # 0 THEN 2 * base_salary ELSE 0

\* self.final_salary as save computes it, before it is stored
computed_final44(base_salary, absent_days, late_days) ==
    LET daily_rate == daily_rate44(base_salary)
        deduction == (daily_rate * absent_days) + (daily_rate \div 2) * late_days
    IN  Max(44 * base_salary - deduction, 0)

\* previous_record with month__lte in place of month__lt
previous_record_lte(objects, employee, month) ==
    LET earlier == {p \in objects :
                       p.employee = employee /\ date_le(p.month, month)}
    IN  IF earlier = {} THEN None
        ELSE CHOOSE p \in earlier : \A o \in earlier : date_le(o.month, p.month)

\* SalaryRecord.objects.filter(employee=..., month__lt=...).order_by('-month').first()
previous_record(objects, employee, month) ==
    LET earlier == {p \in objects :
                       p.employee = employee /\ date_lt(p.month, month)}
    IN  IF earlier = {} THEN None
        ELSE CHOOSE p \in earlier : \A o \in earlier : date_le(o.month, p.month)

\* ratio_exceeds with >= in place of >
ratio_reaches(final44, previous_final) ==
    IF previous_final > 0
    THEN 10 * Abs(final44 - 44 * previous_final) >= 132 * previous_final
    ELSE FALSE

\* abs(final - previous_final) / previous_final > Decimal('0.30'), for
\* previous_final # 0: a negative previous_final gives a ratio <= 0
ratio_exceeds(final44, previous_final) ==
    IF previous_final > 0
    THEN 10 * Abs(final44 - 44 * previous_final) > 132 * previous_final
    ELSE FALSE

\* SalaryRecord_save without self.month = self.month.replace(day=1)
SalaryRecord_save_keep_day(objects, record) ==
    LET month == replace_day(record.month, 1)
        records == month_attendance(record.employee, month)
        late_days == Cardinality({r \in records : r.status = STATUS_LATE})
        absent_days == Cardinality({r \in records : r.status = STATUS_ABSENT})
        final44 == computed_final44(record.base_salary, absent_days, late_days)
        previous == previous_record(objects, record.employee, month)
        has_previous == IF previous = None THEN FALSE ELSE previous.final_salary # 0
    IN  [employee |-> record.employee,
         month |-> record.month,
         base_salary |-> record.base_salary,
         final_salary |-> quantize44(final44),
         late_days |-> late_days,
         absent_days |-> absent_days,
         anomaly_flag |->
             IF has_previous
             THEN ratio_exceeds(final44, previous.final_salary)
             ELSE FALSE]

\* SalaryRecord.save: the row as it is stored; objects is the table it reads
SalaryRecord_save(objects, record) ==
    LET month == replace_day(record.month, 1)
        records == month_attendance(record.employee, month)
        late_days == Cardinality({r \in records : r.status = STATUS_LATE})
        absent_days == Cardinality({r \in records : r.status = STATUS_ABSENT})
        final44 == computed_final44(record.base_salary, absent_days, late_days)
        previous == previous_record(objects, record.employee, month)
        has_previous == IF previous = None THEN FALSE ELSE previous.final_salary # 0
    IN  [employee |-> record.employee,
         month |-> month,
         base_salary |-> record.base_salary,
         final_salary |-> quantize44(final44),
         late_days |-> late_days,
         absent_days |-> absent_days,
         anomaly_flag |->
             IF has_previous
             THEN ratio_exceeds(final44, previous.final_salary)
             ELSE FALSE]

---------------------------------------------------------------------------
(* ems/ai.py: payslip_summary.  A Decimal quotient is kept as the pair     *)
(* [num, den] it stands for; a line built with an f-string is the tuple    *)
(* of its parts, a fixed line a tuple of one string.                       *)

FULL_PAYOUT == "Full payout expected for this month."
SIGNIFICANT == "Significant deductions detected this month."
MINOR == "Minor deductions applied to this month."
NO_DEDUCTIONS == <<"No attendance deductions were applied.">>
STABLE_SIGNALS == <<"Attendance signals are stable for this period.">>
ANOMALY_WARNING == <<"Salary changed by more than 30% compared to last month.">>

absent_line(n) == <<n, " day(s) marked absent.">>

late_line(n) == <<n, " day(s) marked late.">>

\* f'Deduction total: {deduction:.2f} ({deduction_rate:.1f}% of base pay).'
\* with the rate in tenths of a percent
deduction_line(deduction, rate) ==
    <<"Deduction total: ", deduction, " (",
      round_half_even(10 * rate.num, rate.den), "% of base pay).">>

\* rate_ge_20 with > in place of >=
rate_gt_20(rate) ==
    IF rate.den > 0 THEN rate.num > 20 * rate.den
    ELSE rate.num < 20 * rate.den

\* rate >= Decimal('20')
rate_ge_20(rate) ==
    IF rate.den > 0 THEN rate.num >= 20 * rate.den
    ELSE rate.num <= 20 * rate.den

\* the headline branch of payslip_summary
headline_of(deduction, rate) ==
    IF deduction = 0 THEN FULL_PAYOUT
    ELSE IF rate_ge_20(rate) THEN SIGNIFICANT
    ELSE MINOR

\* collect_insights with the late line before the absent line
collect_insights_late_first(deduction, absent_days, late_days) ==
    LET collected ==
            (IF deduction = 0 THEN <<NO_DEDUCTIONS>> ELSE <<>>)
            \o (IF late_days # 0 THEN <<late_line(late_days)>> ELSE <<>>)
            \o (IF absent_days # 0 THEN <<absent_line(absent_days)>> ELSE <<>>)
    IN  IF collected = <<>> THEN <<STABLE_SIGNALS>> ELSE collected

\* the appends to insights, in the order the code makes them
collect_insights(deduction, absent_days, late_days) ==
    LET collected ==
            (IF deduction = 0 THEN <<NO_DEDUCTIONS>> ELSE <<>>)
            \o (IF absent_days # 0 THEN <<absent_line(absent_days)>> ELSE <<>>)
            \o (IF late_days # 0 THEN <<late_line(late_days)>> ELSE <<>>)
    IN  IF collected = <<>> THEN <<STABLE_SIGNALS>> ELSE collected

payslip_summary(salary_record) ==
    LET base == salary_record.base_salary
        final == salary_record.final_salary
        deduction == Max(base - final, 0)
        deduction_rate ==
            IF base # 0 THEN [num |-> deduction * 100, den |-> base]
            ELSE [num |-> 0, den |-> 1]
    IN  [headline |-> headline_of(deduction, deduction_rate),
         insights |-> collect_insights(deduction, salary_record.absent_days,
                                       salary_record.late_days),
         warnings |->
             (IF salary_record.anomaly_flag THEN <<ANOMALY_WARNING>> ELSE <<>>)
             \o (IF deduction > 0
                 THEN <<deduction_line(deduction, deduction_rate)>>
                 ELSE <<>>),
         deduction |-> deduction,
         deduction_rate |-> deduction_rate]

---------------------------------------------------------------------------
(* The salary views: salary_add, the admin change form of SalaryRecord,    *)
(* payslip_detail.  Attendance is a fixed history.                         *)

MaxSalaryRecords == 3

\* submitted base_salary values, in cents
BaseSalaries == {-10000, 0, 5, 110000, 150000, 204286}

\* submitted employee and month values; save moves a month to its first day
SalaryMonths ==
    {<<"e1", <<2023, 12, 1>>>>, <<"e1", <<2024, 1, 15>>>>, <<"e1", <<2024, 2, 1>>>>,
     <<"e2", <<2023, 12, 1>>>>}

Approved(employee, date, status) ==
    AttendanceRow(employee, date, status, REVIEW_APPROVED)

\* e1: December 2023 nothing approved but a Present; January 2024 two Late;
\*     February 2024 23 Absent and one Late.
\* e2: December 2023 four Absent and one Late.
\* Entries just outside a month, and Pending and Rejected ones, surround them.
SalaryAttendance ==
    {Approved("e1", <<2023, 11, 30>>, STATUS_ABSENT),
     AttendanceRow("e1", <<2023, 12, 1>>, STATUS_LATE, REVIEW_REJECTED),
     Approved("e1", <<2023, 12, 15>>, STATUS_PRESENT),
     AttendanceRow("e1", <<2023, 12, 31>>, STATUS_ABSENT, REVIEW_PENDING),
     Approved("e1", <<2024, 1, 1>>, STATUS_LATE),
     AttendanceRow("e1", <<2024, 1, 10>>, STATUS_LATE, REVIEW_PENDING),
     AttendanceRow("e1", <<2024, 1, 11>>, STATUS_ABSENT, REVIEW_REJECTED),
     Approved("e1", <<2024, 1, 31>>, STATUS_LATE),
     Approved("e1", <<2024, 2, 29>>, STATUS_LATE),
     Approved("e1", <<2024, 3, 1>>, STATUS_ABSENT),
     Approved("e2", <<2023, 12, 1>>, STATUS_ABSENT),
     Approved("e2", <<2023, 12, 2>>, STATUS_ABSENT),
     Approved("e2", <<2023, 12, 3>>, STATUS_ABSENT),
     Approved("e2", <<2023, 12, 10>>, STATUS_LATE),
     Approved("e2", <<2023, 12, 31>>, STATUS_ABSENT),
     Approved("e2", <<2024, 1, 1>>, STATUS_ABSENT)}
    \cup {Approved("e1", <<2024, 2, d>>, STATUS_ABSENT) : d \in 1..23}

\* a SalaryRecordForm instance before save: the model's field defaults
NewSalary(employee, month, base_salary) ==
    [employee |-> employee, month |-> month, base_salary |-> base_salary,
     final_salary |-> 0, late_days |-> 0, absent_days |-> 0,
     anomaly_flag |-> FALSE]

\* POST salary/add/.  The form checks unique_salary_month on the month as
\* submitted; the database checks it on the month as save normalised it.
salary_add(actor, employee, month, base_salary) ==
    /\ role_required({ROLE_HR}, actor)
    /\ IF \E r \in salaries : r.employee = employee /\ r.month = month
       THEN /\ response' = [view |-> "salary_form"]
            /\ UNCHANGED salaries
       ELSE IF \E r \in salaries :
                   r.employee = employee /\ r.month = replace_day(month, 1)
       THEN /\ response' = [view |-> "IntegrityError"]
            /\ UNCHANGED salaries
       ELSE /\ Cardinality(salaries) < MaxSalaryRecords
            /\ salaries' = salaries \cup
                   {SalaryRecord_save(salaries, NewSalary(employee, month, base_salary))}
            /\ response' = Redirect("salary_list")
    /\ UNCHANGED <<users, attendance, leaves>>

\* the admin change form of a SalaryRecord, saved with its fields as they are
salary_resave(record) ==
    /\ record \in salaries
    /\ salaries' = (salaries \ {record}) \cup {SalaryRecord_save(salaries, record)}
    /\ response' = Redirect("admin:ems_salaryrecord_changelist")
    /\ UNCHANGED <<users, attendance, leaves>>

\* GET payslips/<pk>/
payslip_detail(actor, record) ==
    /\ record \in salaries
    /\ \/ RoleOf(actor) \in {ROLE_HR, ROLE_MANAGER}
       \/ record.employee = actor
    /\ response' = [view |-> "payslip_detail", record |-> record,
                    ai |-> payslip_summary(record)]
    /\ UNCHANGED <<users, attendance, leaves, salaries>>

InitSalary ==
    /\ users = InitUsers(NoDepartment)
    /\ attendance = SalaryAttendance
    /\ leaves = <<>>
    /\ salaries = {}
    /\ response = NoResponse

NextSalary ==
    \/ \E actor \in Usernames, em \in SalaryMonths, base_salary \in BaseSalaries :
           salary_add(actor, em[1], em[2], base_salary)
    \/ \E record \in salaries : salary_resave(record)
    \/ \E actor \in Usernames, record \in salaries : payslip_detail(actor, record)

SpecSalary == InitSalary /\ [][NextSalary]_vars

---------------------------------------------------------------------------
(* ems/views.py: attendance_add and attendance_review *)

\* submitted employee and date values of an AttendanceAdminForm: the days
\* around the ends of December 2023
AttendanceDays ==
    {<<"e1", <<2023, 11, 30>>>>, <<"e1", <<2023, 12, 1>>>>,
     <<"e1", <<2023, 12, 31>>>>, <<"e1", <<2024, 1, 1>>>>,
     <<"e2", <<2023, 12, 31>>>>}

\* AttendanceRecord.objects.filter(employee=..., date=...)
records_of_day(employee, date) ==
    {r \in attendance : r.employee = employee /\ r.date = date}

\* form.is_valid() of an AttendanceAdminForm: the employee is in the form's
\* queryset, and the ModelForm validates unique_attendance_day, whose fields
\* employee and date are both fields of the form, for the new instance
attendance_form_is_valid(employee, date) ==
    /\ is_employee(employee)
    /\ records_of_day(employee, date) = {}

\* POST attendance/add/
attendance_add(actor, employee, date, status) ==
    /\ role_required({ROLE_MANAGER, ROLE_HR}, actor)
    /\ LET existing == records_of_day(employee, date)
           record == AttendanceRow(employee, date, status, REVIEW_APPROVED)
       IN  IF ~attendance_form_is_valid(employee, date)
           THEN /\ response' = [view |-> "attendance_form"]
                /\ UNCHANGED attendance
           ELSE IF existing # {}
           THEN /\ attendance' = (attendance \ existing) \cup {record}
                /\ response' = Redirect("attendance_list")
           ELSE /\ attendance' = attendance \cup {record}
                /\ response' = Redirect("attendance_list")
    /\ UNCHANGED <<users, leaves, salaries>>

\* POST attendance/<pk>/review/
attendance_review(actor, record, action) ==
    /\ role_required({ROLE_HR}, actor)
    /\ record \in attendance
    /\ attendance' =
           (attendance \ {record}) \cup
           {IF action = "approve"
            THEN [record EXCEPT !.review_status = REVIEW_APPROVED]
            ELSE IF action = "reject"
            THEN [record EXCEPT !.review_status = REVIEW_REJECTED]
            ELSE record}
    /\ response' = Redirect("attendance_list")
    /\ UNCHANGED <<users, leaves, salaries>>

InitAttendance ==
    /\ users = InitUsers(NoDepartment)
    /\ attendance = {}
    /\ leaves = <<>>
    /\ salaries = {}
    /\ response = NoResponse

NextAttendance ==
    \/ \E actor \in Usernames, day \in AttendanceDays, status \in STATUS_CHOICES :
           attendance_add(actor, day[1], day[2], status)
    \/ \E actor \in Usernames, record \in attendance,
          action \in {"approve", "reject", ""} :
           attendance_review(actor, record, action)

SpecAttendance == InitAttendance /\ [][NextAttendance]_vars

---------------------------------------------------------------------------
(* Claims about attendance_flag, checked under SpecFlag *)

ApprovedEntries(objects) == {r \in objects : r.review_status = REVIEW_APPROVED}

\* The histories that differ from objects in one entry that is not Approved:
\* such an entry removed, given another status, or added on the first or the
\* last day of the month if that day has no entry.
UnapprovedVariants(objects) ==
    {objects \ {r} : r \in objects \ ApprovedEntries(objects)}
    \cup {(objects \ {r}) \cup {[r EXCEPT !.status = s]} :
            r \in objects \ ApprovedEntries(objects), s \in STATUS_CHOICES}
    \cup UNION {
           {objects \cup {AttendanceRow(e, <<2024, 1, d>>, s, rv)} :
               d \in {x \in {1, 31} :
                        \A r \in objects :
                            ~(r.employee = e /\ r.date = <<2024, 1, x>>)},
               s \in STATUS_CHOICES,
               rv \in {REVIEW_PENDING, REVIEW_REJECTED}} :
           e \in Employees}

(* C1: attendance_flag(employee) depends only on the employee's Approved    *)
(* attendance entries: the label for the stored history is the label for    *)
(* its Approved entries alone, it is the same for every history that        *)
(* differs in one Pending or Rejected entry (removed, added, or with        *)
(* another Present/Absent/Late status), and the dashboard shows that label. *)
C1_FlagDependsOnlyOnApproved ==
    /\ \A e \in Employees :
         /\ attendance_flag(attendance, e, None)
              = attendance_flag(ApprovedEntries(attendance), e, None)
         /\ \A other \in UnapprovedVariants(attendance) :
              attendance_flag(other, e, None) = attendance_flag(attendance, e, None)
    /\ (response.view = "dashboard" /\ response.user \in Employees)
         => response.attendance_flag
              = attendance_flag(ApprovedEntries(attendance), response.user, None)

\* The dashboard shows "Stable Attendance" to an employee who has five Late
\* entries, not all of them Approved.
C1_Witness ==
    /\ response.view = "dashboard"
    /\ response.user \in Employees
    /\ response.attendance_flag = "Stable Attendance"
    /\ Cardinality({r \in attendance :
           r.employee = response.user /\ r.status = STATUS_LATE}) > 4
    /\ \E r \in attendance :
           /\ r.employee = response.user
           /\ r.status = STATUS_LATE
           /\ r.review_status # REVIEW_APPROVED

ApprovedCount(e, status) ==
    Cardinality({r \in attendance :
        r.employee = e /\ r.review_status = REVIEW_APPROVED /\ r.status = status})

(* C2: with late_count and absent_count the numbers of Approved Late and    *)
(* Approved Absent entries, the label is 'Frequently Late' when             *)
(* late_count > 4, otherwise 'Irregular Attendance' when absent_count >= 3  *)
(* and late_count >= 3, otherwise 'Stable Attendance'; so late_count >= 5   *)
(* gives 'Frequently Late' whatever absent_count is, and late_count <= 2    *)
(* gives 'Stable Attendance' whatever absent_count is.                      *)
C2_FlagDecision ==
    /\ \A e \in Employees :
         LET late_count == ApprovedCount(e, STATUS_LATE)
             absent_count == ApprovedCount(e, STATUS_ABSENT)
             label == attendance_flag(attendance, e, None)
         IN  /\ late_count > 4 => label = "Frequently Late"
             /\ (late_count <= 4 /\ absent_count >= 3 /\ late_count >= 3)
                  => label = "Irregular Attendance"
             /\ (late_count <= 4 /\ ~(absent_count >= 3 /\ late_count >= 3))
                  => label = "Stable Attendance"
             /\ late_count >= 5 => label = "Frequently Late"
             /\ late_count <= 2 => label = "Stable Attendance"
    /\ response.view = "reports" =>
         \A e \in DOMAIN response.report_rows :
             response.report_rows[e].attendance_flag
               = (IF ApprovedCount(e, STATUS_LATE) > 4 THEN "Frequently Late"
                  ELSE IF ApprovedCount(e, STATUS_ABSENT) >= 3
                          /\ ApprovedCount(e, STATUS_LATE) >= 3
                  THEN "Irregular Attendance"
                  ELSE "Stable Attendance")

\* The report shows all three labels' boundary: an employee with four Late and
\* three Absent approved entries is 'Irregular Attendance', beside an employee
\* with five Late entries who is 'Frequently Late'.
C2_Witness ==
    /\ response.view = "reports"
    /\ response.report_rows["e1"].attendance_flag = "Irregular Attendance"
    /\ response.report_rows["e2"].attendance_flag = "Frequently Late"
    /\ ApprovedCount("e1", STATUS_LATE) = 4
    /\ ApprovedCount("e1", STATUS_ABSENT) = 3

---------------------------------------------------------------------------
(* Claims about leave requests, checked under Spec *)

\* the teammates of an employee, and those of them on an approved leave that
\* overlaps [start_date, end_date]
Teammates(employee) ==
    {u \in Usernames \ {employee} :
        users[u].department = users[employee].department}

TeammatesOnLeave(employee, start_date, end_date) ==
    {u \in Teammates(employee) :
        \E i \in DOMAIN leaves :
            /\ leaves[i].employee = u
            /\ leaves[i].status = LEAVE_APPROVED
            /\ date_le(leaves[i].start_date, end_date)
            /\ date_le(start_date, leaves[i].end_date)}

C4_TeamAvailable ==
    \A employee \in Usernames, start_date \in LeaveDates, end_date \in LeaveDates :
        team_available(employee, start_date, end_date)
          = (IF users[employee].department = "" \/ Teammates(employee) = {}
             THEN TRUE
             ELSE Cardinality(Teammates(employee))
                    - Cardinality(TeammatesOnLeave(employee, start_date, end_date))
                    >= 1)

\* One of e1's two teammates, e2, has two approved leaves on the same day: the
\* team is still available to e1 that day, and to e2, whose own leaves do not
\* count.
C4_Witness ==
    /\ Cardinality(Teammates("e1")) = 2
    /\ Len(leaves) = 2
    /\ leaves[1].employee = "e2" /\ leaves[2].employee = "e2"
    /\ leaves[1].status = LEAVE_APPROVED /\ leaves[2].status = LEAVE_APPROVED
    /\ leaves[1].start_date = <<2024, 2, 28>> /\ leaves[1].end_date = <<2024, 2, 28>>
    /\ leaves[2].start_date = <<2024, 2, 28>> /\ leaves[2].end_date = <<2024, 3, 1>>
    /\ team_available("e1", <<2024, 2, 28>>, <<2024, 2, 28>>)
    /\ team_available("e2", <<2024, 2, 28>>, <<2024, 2, 28>>)


---------------------------------------------------------------------------
(* Claims about SalaryRecord.save, checked under SpecSalary *)

\* the employee's Approved entries of one status dated in the year and month
MonthCount(employee, month, status) ==
    Cardinality({a \in attendance :
                    /\ a.employee = employee
                    /\ a.review_status = REVIEW_APPROVED
                    /\ a.status = status
                    /\ a.date[1] = month[1] /\ a.date[2] = month[2]})

\* C5: every stored SalaryRecord has late_days and absent_days equal to the
\* numbers of the employee's Approved Late and Approved Absent entries of its
\* month, and final_salary = max(base - (rate * absent + rate / 2 * late), 0)
\* with rate = base / 22 if base > 0 and 0 otherwise.  (No action of
\* SpecSalary changes attendance, so a stored row is as its save left it.)
C5_SalaryDerivation ==
    \A r \in salaries :
        LET late == MonthCount(r.employee, r.month, STATUS_LATE)
            absent == MonthCount(r.employee, r.month, STATUS_ABSENT)
            rate44 == IF r.base_salary > 0 THEN 2 * r.base_salary ELSE 0
            due44 == 44 * r.base_salary - (rate44 * absent + (rate44 \div 2) * late)
        IN  /\ r.late_days = late
            /\ r.absent_days = absent
            /\ r.final_salary = quantize44(IF due44 > 0 THEN due44 ELSE 0)

\* what C6 states of a row r just saved into table
AnomalyAsStated(table, r) ==
    LET earlier == {p \in table :
                       p.employee = r.employee /\ date_lt(p.month, r.month)}
        final44 == computed_final44(r.base_salary, r.absent_days, r.late_days)
    IN  IF earlier = {} THEN r.anomaly_flag = FALSE
        ELSE LET previous ==
                     CHOOSE p \in earlier :
                         \A o \in earlier : ~date_lt(p.month, o.month)
             IN  IF previous.final_salary > 0
                 THEN r.anomaly_flag =
                          (10 * Abs(final44 - 44 * previous.final_salary)
                               > 3 * 44 * previous.final_salary)
                 ELSE r.anomaly_flag = FALSE

Derived(r) == <<r.final_salary, r.late_days, r.absent_days, r.anomaly_flag>>

\* C7: a second save of a record, with nothing else changed in between,
\* leaves final_salary, late_days, absent_days and anomaly_flag as the first
\* save left them; the first save is of a stored row or of a new record.
C7_SaveIdempotent ==
    /\ \A r \in salaries :
           LET first == SalaryRecord_save(salaries, r)
               table == (salaries \ {r}) \cup {first}
           IN  Derived(SalaryRecord_save(table, first)) = Derived(first)
    /\ \A em \in SalaryMonths, base_salary \in BaseSalaries :
           (\A r \in salaries :
                ~(r.employee = em[1] /\ r.month = replace_day(em[2], 1)))
           => LET first == SalaryRecord_save(salaries,
                                             NewSalary(em[1], em[2], base_salary))
              IN  Derived(SalaryRecord_save(salaries \cup {first}, first))
                      = Derived(first)

\* a row has been saved again from the admin; a flagged row with deductions
\* is stored, and every stored row is what a further save would write
C7_Witness ==
    /\ response = Redirect("admin:ems_salaryrecord_changelist")
    /\ \E r \in salaries :
           r.anomaly_flag /\ r.late_days > 0 /\ r.final_salary > 0
    /\ \A r \in salaries : SalaryRecord_save(salaries, r) = r

---------------------------------------------------------------------------
(* Claims about payslip_summary, checked under SpecSalary *)

\* rows payslip_summary is also applied to: final_salary >= 0, as save
\* stores it, and otherwise unrelated to base_salary and the day counts
PayslipSamples ==
    {[employee |-> "e1", month |-> <<2024, 1, 1>>, base_salary |-> b,
      final_salary |-> f, late_days |-> l, absent_days |-> a,
      anomaly_flag |-> FALSE] :
        b \in {-10000, 0, 5, 100000},
        f \in {0, 4, 75000, 80000, 80001, 100000, 120000},
        l \in {0, 2}, a \in {0, 3}}

HeadlineAsStated(r, ai) ==
    LET deduction == IF r.base_salary - r.final_salary > 0
                     THEN r.base_salary - r.final_salary ELSE 0
    IN  /\ ai.deduction = deduction
        /\ ai.deduction >= 0
        /\ IF r.base_salary > 0
           THEN ai.deduction_rate = [num |-> deduction * 100, den |-> r.base_salary]
           ELSE ai.deduction_rate.num = 0
        /\ ai.headline =
               IF deduction = 0 THEN "Full payout expected for this month."
               ELSE IF r.base_salary > 0 /\ deduction * 100 >= 20 * r.base_salary
               THEN "Significant deductions detected this month."
               ELSE "Minor deductions applied to this month."

HeadlineOnSamples == \A r \in PayslipSamples : HeadlineAsStated(r, payslip_summary(r))

\* C8: payslip_summary returns deduction = max(base - final, 0), never
\* negative, deduction_rate = deduction / base * 100 if base > 0 else 0, and
\* the headline is the full-payout one when deduction = 0, else the
\* significant one when the rate is at least 20, else the minor one.
C8_Headline ==
    /\ response.view = "payslip_detail"
           => HeadlineAsStated(response.record, response.ai)
    /\ HeadlineOnSamples

\* a payslip whose deduction is exactly 20% of a positive base_salary
C8_Witness ==
    /\ response.view = "payslip_detail"
    /\ response.record.base_salary > 0
    /\ response.ai.deduction * 100 = 20 * response.record.base_salary
    /\ response.ai.headline = "Significant deductions detected this month."

InsightsAsStated(r, ai) ==
    LET deduction == IF r.base_salary - r.final_salary > 0
                     THEN r.base_salary - r.final_salary ELSE 0
        ordered ==
            (IF deduction = 0
             THEN <<(<<"No attendance deductions were applied.">>)>> ELSE <<>>)
            \o (IF r.absent_days # 0
                THEN <<(<<r.absent_days, " day(s) marked absent.">>)>> ELSE <<>>)
            \o (IF r.late_days # 0
                THEN <<(<<r.late_days, " day(s) marked late.">>)>> ELSE <<>>)
        fallback == <<"Attendance signals are stable for this period.">>
    IN  /\ Len(ai.insights) >= 1
        /\ IF deduction > 0 /\ r.absent_days = 0 /\ r.late_days = 0
           THEN ai.insights = <<fallback>>
           ELSE /\ ai.insights = ordered
                /\ \A i \in 1..Len(ai.insights) : ai.insights[i] # fallback

InsightsOnSamples == \A r \in PayslipSamples : InsightsAsStated(r, payslip_summary(r))

\* C9: the insight list is never empty; it holds, in this order, the
\* no-deductions line iff deduction = 0, the absent line iff absent_days is
\* nonzero, the late line iff late_days is nonzero; the fallback line is the
\* only insight when deduction > 0 with both counts 0, and absent otherwise.
C9_Insights ==
    /\ response.view = "payslip_detail"
           => InsightsAsStated(response.record, response.ai)
    /\ InsightsOnSamples

\* a payslip with deductions, four absent days and one late day
C9_Witness ==
    /\ response.view = "payslip_detail"
    /\ response.ai.deduction > 0
    /\ response.ai.insights
           = << <<4, " day(s) marked absent.">>, <<1, " day(s) marked late.">> >>

---------------------------------------------------------------------------
(* Claims about LeaveRequest.total_days, checked under Spec *)

(* C10: every leave request stored through leave_request has                *)
(* total_days = (end_date - start_date in days) + 1 and total_days >= 1.    *)
C10_TotalDaysAtLeastOne ==
    \A i \in DOMAIN leaves :
        /\ total_days(leaves[i])
             = days_between(leaves[i].start_date, leaves[i].end_date) + 1
        /\ total_days(leaves[i]) >= 1

---------------------------------------------------------------------------
(* Claims about leave_approve, checked under Spec *)

\* the requests of employee e that a step leaves Approved
ApprovedAfter(e) ==
    {pk \in DOMAIN leaves :
        leaves[pk].employee = e /\ leaves'[pk].status = LEAVE_APPROVED}

\* C11: a step of leave_approve changes an employee's balance only by an
\* approve of one of the employee's requests, to max(balance - total_days, 0);
\* it never raises the balance and never leaves it negative; a step that
\* approves nothing (reject, any other action) leaves every balance as it was.
C11_ApproveBalance ==
    [][Len(leaves') = Len(leaves) =>
         \A e \in Usernames :
            LET old == users[e].leave_balance
                new == users'[e].leave_balance
            IN  /\ new <= old
                /\ new >= 0
                /\ new # old =>
                       \E pk \in ApprovedAfter(e) :
                           new = IF old - total_days(leaves[pk]) > 0
                                 THEN old - total_days(leaves[pk]) ELSE 0
                /\ ApprovedAfter(e) = {} => new = old]_vars

\* C14: a step that approves no request of the employee that was not already
\* Approved (a repeated approve, a reject, any other action) does not reduce
\* the employee's balance.
C14_ReducedAtMostOnce ==
    [][Len(leaves') = Len(leaves) =>
         \A e \in Usernames :
            (\A pk \in ApprovedAfter(e) : leaves[pk].status = LEAVE_APPROVED)
                => users'[e].leave_balance >= users[e].leave_balance]_vars

---------------------------------------------------------------------------
(* Claims about attendance_add and attendance_review, checked under        *)
(* SpecAttendance                                                          *)

\* C12: no step of attendance_add or attendance_review leaves two records
\* of one employee and date, and every attendance_add submission of an
\* employee, date and status leaves the record of that employee and date
\* with the submitted status and review status Approved, also when a record
\* of that employee and date was there before.
C12_OnePerDay ==
    [][/\ \A r1 \in attendance', r2 \in attendance' :
              (r1.employee = r2.employee /\ r1.date = r2.date) => r1 = r2
       /\ \A actor \in Usernames, day \in AttendanceDays, status \in STATUS_CHOICES :
              attendance_add(actor, day[1], day[2], status)
                  => AttendanceRow(day[1], day[2], status, REVIEW_APPROVED)
                         \in attendance']_vars

---------------------------------------------------------------------------
(* Claims about the SalaryRecord table, checked under SpecSalary *)

\* C13: every stored SalaryRecord has the first day of a month as its month,
\* and no two stored records have the same employee and the same calendar
\* month, whatever days the saves were submitted with.
C13_OnePerMonth ==
    /\ \A r \in salaries : r.month[3] = 1
    /\ \A r1 \in salaries, r2 \in salaries :
           (/\ r1.employee = r2.employee
            /\ r1.month[1] = r2.month[1]
            /\ r1.month[2] = r2.month[2]) => r1 = r2

\* a record of e1 was saved with 15 January 2024 and is stored under
\* 1 January; a second submission with 15 January has been refused
C13_Witness ==
    /\ response = [view |-> "IntegrityError"]
    /\ \E r \in salaries : r.employee = "e1" /\ r.month = <<2024, 1, 1>>

---------------------------------------------------------------------------
(* Claims relating attendance_flag and SalaryRecord.save, checked under    *)
(* SpecAttendance                                                          *)

\* the month values both are asked for: November, December (two days of it)
\* and January
ComparedMonths ==
    {<<2023, 11, 1>>, <<2023, 12, 1>>, <<2023, 12, 15>>, <<2024, 1, 1>>}

\* C15: for every employee and month, the entries attendance_flag counts for
\* the month are the entries SalaryRecord.save counts for it, so the late and
\* absent counts of the flag are the late_days and absent_days a save of a
\* record of that employee and month would store now.
C15_SameMonthEntries ==
    \A e \in Employees, month \in ComparedMonths :
        LET counted == flag_records(attendance, e, month)
            saved == SalaryRecord_save(salaries, NewSalary(e, month, 100000))
        IN  /\ counted = month_attendance(e, replace_day(month, 1))
            /\ Cardinality({r \in counted : r.status = STATUS_LATE}) = saved.late_days
            /\ Cardinality({r \in counted : r.status = STATUS_ABSENT}) = saved.absent_days

\* e1 has Approved entries on the first and last day of December 2023 and on
\* the days before and after the month, and e2 a Rejected one
C15_Witness ==
    /\ AttendanceRow("e1", <<2023, 11, 30>>, STATUS_ABSENT, REVIEW_APPROVED) \in attendance
    /\ AttendanceRow("e1", <<2023, 12, 1>>, STATUS_LATE, REVIEW_APPROVED) \in attendance
    /\ AttendanceRow("e1", <<2023, 12, 31>>, STATUS_ABSENT, REVIEW_APPROVED) \in attendance
    /\ AttendanceRow("e1", <<2024, 1, 1>>, STATUS_LATE, REVIEW_APPROVED) \in attendance
    /\ AttendanceRow("e2", <<2023, 12, 31>>, STATUS_LATE, REVIEW_REJECTED) \in attendance
    /\ Cardinality(flag_records(attendance, "e1", <<2023, 12, 1>>)) = 2

====
